---- MODULE Spec2Model ----
(***************************************************************************)
(* Contribution-graph realignment content script.                          *)
(*                                                                         *)
(* Two source files carry the script: src/extension/content.js and         *)
(* src/unnamed/part_000.  startWeekOnMonday (the Realigner) is the same in *)
(* both; the Change Watcher (debounce, observeTable, main) differs, and    *)
(* the variable `variant` says which file's watcher a behaviour runs.      *)
(*                                                                         *)
(* Strings the code inspects (label text, style attribute) are sequences   *)
(* of one-character strings, so that trim and replace are computed.        *)
(***************************************************************************)
EXTENDS Integers, Sequences, FiniteSets, TLC

VARIABLES
    variant,            \* "extension" (content.js) or "part_000"
    enableRealignment,  \* the value the settings read yields
    pc,                 \* "loading" | "settings" | "running" | "off" | "direct"
    document,           \* <<>> or <<table>>: what querySelector('.ContributionCalendar-grid') sees
    subscriptions,      \* generations of the MutationObservers that are connected
    activeObserver,     \* part_000: generation of the shared handle, 0 = null
    timeout,            \* generation -> timer id held by that debounce closure, 0 = undefined
    timers,             \* pending setTimeout timers: [id, kind, gen, left]
    popstate,           \* number of popstate listeners registered (same function: 0 or 1)
    hist,               \* history: generation -> [n, quiet, found] of its closure
    orig,               \* history: the table in the document as the page created it
    relocs,             \* history: row relocations on the current table instance
    dels,               \* history: cell deletions on the current table instance
    calls,              \* history: realign invocations on the current table instance
    first,              \* history: record of the first invocation on the current instance
    last,               \* history: record of the latest invocation
    ev                  \* history: what the latest step did in the watcher

vars == <<variant, enableRealignment, pc, document, subscriptions, activeObserver,
          timeout, timers, popstate, hist, orig, relocs, dels, calls, first, last, ev>>

----------------------------------------------------------------------------
(* Bounds of the model *)

\* most cells (label cell included) a row of a generated table has
MaxCells == 3

\* most realign invocations counted on one table instance
MaxCalls == 2

----------------------------------------------------------------------------
(* Program constants *)

\* tbody.rows.length !== 7
NumRows == 7

\* firstRow.cells.length < 2
MinCells == 2

----------------------------------------------------------------------------
(* Strings *)

Sun == <<"S", "u", "n">>
Mon == <<"M", "o", "n">>
Tue == <<"T", "u", "e">>
Wed == <<"W", "e", "d">>
Thu == <<"T", "h", "u">>
Fri == <<"F", "r", "i">>
Sat == <<"S", "a", "t">>

Circle0 == <<"C", "i", "r", "c", "l", "e", "(", "0", ")">>
NoneStr == <<"N", "o", "n", "e">>

ClipPath == <<"c", "l", "i", "p", "-", "p", "a", "t", "h", ":", " ">>
WebkitClipPath == <<"-", "w", "e", "b", "k", "i", "t", "-">> \o ClipPath
PositionAbsolute == <<";", " ", "p", "o", "s", "i", "t", "i", "o", "n", ":", " ",
                      "a", "b", "s", "o", "l", "u", "t", "e", ";">>

\* the characters String.prototype.trim strips that the generated texts use
WhiteSpace == {" ", "\n", "\t"}

RECURSIVE trimStart(_)
trimStart(s) ==
    IF s # <<>> /\ Head(s) \in WhiteSpace THEN trimStart(Tail(s)) ELSE s

RECURSIVE trimEnd(_)
trimEnd(s) ==
    IF s # <<>> /\ s[Len(s)] \in WhiteSpace
    THEN trimEnd(SubSeq(s, 1, Len(s) - 1)) ELSE s

trim(s) == trimEnd(trimStart(s))

\* does pat occur in s at position i (1-based)
OccursAt(s, pat, i) ==
    /\ i >= 1
    /\ i + Len(pat) - 1 <= Len(s)
    /\ SubSeq(s, i, i + Len(pat) - 1) = pat

Occurrences(s, pat) == {i \in 1..Len(s) : OccursAt(s, pat, i)}

includes(s, pat) == Occurrences(s, pat) # {}

Min(S) == CHOOSE x \in S : \A y \in S : x <= y

\* String.prototype.replace with a string pattern: the first occurrence only
replace(s, pat, rep) ==
    IF ~includes(s, pat) THEN s
    ELSE LET i == Min(Occurrences(s, pat))
         IN SubSeq(s, 1, i - 1) \o rep \o SubSeq(s, i + Len(pat), Len(s))

----------------------------------------------------------------------------
(* The table: [hasBody, rows, weekMondayCorrected]; a row is its sequence  *)
(* of cells; a cell is [id, span]; a span is [exists, text, hasStyle,      *)
(* style] (the span[aria-hidden="true"] descendant of the cell, if any).   *)

NoSpan == [exists |-> FALSE, text |-> <<>>, hasStyle |-> FALSE, style |-> <<>>]

Span(text, hasStyle, style) ==
    [exists |-> TRUE, text |-> text, hasStyle |-> hasStyle,
     style |-> IF hasStyle THEN style ELSE <<>>]

\* Node.appendChild of a node that is already a child: it moves to the end
appendChildKeepsFirst(children, i) == children

appendChild(children, i) ==
    SubSeq(children, 1, i - 1) \o SubSeq(children, i + 1, Len(children))
        \o <<children[i]>>

\* HTMLTableRowElement.deleteCell(index), index counted from 0
deleteCellSkips(cells, index) == cells

\* deleteCell(-1): the last cell
deleteCellLast(cells, index) == SubSeq(cells, 1, Len(cells) - 1)

\* deleteCell with the index one too low
deleteCellBefore(cells, index) ==
    SubSeq(cells, 1, index - 1) \o SubSeq(cells, index + 1, Len(cells))

deleteCell(cells, index) ==
    SubSeq(cells, 1, index) \o SubSeq(cells, index + 2, Len(cells))

\* the points of the try block at which an exception can be raised
FaultPoints == {"none", "appendChild", "deleteCell", "querySelector",
                "setAttribute", "dataset"}

\* what one invocation did: the table it leaves, rows moved, cells deleted,
\* whether the catch clause ran, whether the try block was entered
Returned(table) ==
    [table |-> table, moved |-> 0, deleted |-> 0, caught |-> FALSE, tried |-> FALSE]

\* a catch clause that ends by setting the marker all the same
CaughtMarked(table, moved, deleted) ==
    [table |-> [table EXCEPT !.weekMondayCorrected = TRUE], moved |-> moved,
     deleted |-> deleted, caught |-> TRUE, tried |-> TRUE]

Caught(table, moved, deleted) ==
    [table |-> table, moved |-> moved, deleted |-> deleted, caught |-> TRUE,
     tried |-> TRUE]

Completed(table, moved, deleted) ==
    [table |-> table, moved |-> moved, deleted |-> deleted, caught |-> FALSE,
     tried |-> TRUE]

\* step 3 and 4 of the try block, on the table after steps 1 and 2
FixLabelAndMark(t2, moved, deleted, fault) ==
    LET lastIx == Len(t2.rows)
        sunLabel == t2.rows[lastIx][1].span
    IN  IF fault = "querySelector" THEN Caught(t2, moved, deleted)
        ELSE IF sunLabel.exists /\ sunLabel.hasStyle
        THEN IF fault = "setAttribute" THEN Caught(t2, moved, deleted)
             ELSE LET newStyle == replace(sunLabel.style, Circle0, NoneStr)
                      t3 == [t2 EXCEPT !.rows[lastIx][1].span.style = newStyle]
                  IN  IF fault = "dataset" THEN Caught(t3, moved, deleted)
                      ELSE Completed([t3 EXCEPT !.weekMondayCorrected = TRUE],
                                     moved, deleted)
        ELSE IF fault = "dataset" THEN Caught(t2, moved, deleted)
             ELSE Completed([t2 EXCEPT !.weekMondayCorrected = TRUE],
                            moved, deleted)

\* the try block with the cell deletion in a try of its own, so that a
\* throw there is passed over and the rest runs
TryBlockPassesOverDelete(table, fault) ==
    IF fault = "appendChild" THEN Caught(table, 0, 0)
    ELSE LET t1 == [table EXCEPT !.rows = appendChild(table.rows, 1)]
             lastIx == Len(t1.rows)
             newLastRow == t1.rows[lastIx]
         IN  IF fault = "deleteCell" THEN FixLabelAndMark(t1, 1, 0, "none")
             ELSE IF Len(newLastRow) > 1
             THEN FixLabelAndMark(
                     [t1 EXCEPT !.rows[lastIx] = deleteCell(newLastRow, 1)],
                     1, 1, fault)
             ELSE FixLabelAndMark(t1, 1, 0, fault)

\* the try block
TryBlock(table, fault) ==
    IF fault = "appendChild" THEN Caught(table, 0, 0)
    ELSE LET t1 == [table EXCEPT !.rows = appendChild(table.rows, 1)]
             lastIx == Len(t1.rows)
             newLastRow == t1.rows[lastIx]
         IN  IF Len(newLastRow) > 1
             THEN IF fault = "deleteCell" THEN Caught(t1, 1, 0)
                  ELSE FixLabelAndMark(
                          [t1 EXCEPT !.rows[lastIx] = deleteCell(newLastRow, 1)],
                          1, 1, fault)
             ELSE FixLabelAndMark(t1, 1, 0, fault)

startWeekOnMondayNoLabelGuard(table, fault) ==
    IF table.weekMondayCorrected THEN Returned(table)
    ELSE IF ~table.hasBody \/ Len(table.rows) # NumRows THEN Returned(table)
    ELSE IF Len(table.rows[1]) < MinCells THEN Returned(table)
    ELSE TryBlock(table, fault)

startWeekOnMondayNoRowCount(table, fault) ==
    IF table.weekMondayCorrected THEN Returned(table)
    ELSE IF ~table.hasBody \/ Len(table.rows) = 0 THEN Returned(table)
    ELSE LET firstRow == table.rows[1]
         IN  IF Len(firstRow) < MinCells THEN Returned(table)
             ELSE LET labelSpan == firstRow[1].span
                  IN  IF ~labelSpan.exists \/ trim(labelSpan.text) # Sun
                      THEN Returned(table)
                      ELSE TryBlock(table, fault)

startWeekOnMondayNoMarkerGuard(table, fault) ==
    IF ~table.hasBody \/ Len(table.rows) # NumRows THEN Returned(table)
    ELSE LET firstRow == table.rows[1]
         IN  IF Len(firstRow) < MinCells THEN Returned(table)
             ELSE LET labelSpan == firstRow[1].span
                  IN  IF ~labelSpan.exists \/ trim(labelSpan.text) # Sun
                      THEN Returned(table)
                      ELSE TryBlock(table, fault)

startWeekOnMonday(table, fault) ==
    IF table.weekMondayCorrected THEN Returned(table)
    ELSE IF ~table.hasBody \/ Len(table.rows) # NumRows THEN Returned(table)
    ELSE LET firstRow == table.rows[1]
         IN  IF Len(firstRow) < MinCells THEN Returned(table)
             ELSE LET labelSpan == firstRow[1].span
                  IN  IF ~labelSpan.exists \/ trim(labelSpan.text) # Sun
                      THEN Returned(table)
                      ELSE TryBlock(table, fault)

----------------------------------------------------------------------------
(* Tables the page can render *)

EmptyTable == [hasBody |-> FALSE, rows |-> <<>>, weekMondayCorrected |-> FALSE]

Shapes == {"SunStart", "MonStart", "TwoSun", "Six", "Eight"}

ShapeLabels(shape) ==
    CASE shape = "SunStart" -> <<Sun, Mon, Tue, Wed, Thu, Fri, Sat>>
      [] shape = "MonStart" -> <<Mon, Tue, Wed, Thu, Fri, Sat, Sun>>
      [] shape = "TwoSun"   -> <<Sun, Sun, Tue, Wed, Thu, Fri, Sat>>
      [] shape = "Six"      -> <<Sun, Mon, Tue, Wed, Thu, Fri>>
      [] shape = "Eight"    -> <<Sun, Mon, Tue, Wed, Thu, Fri, Sat, Sun>>

\* how the label span of row 0 is written
Row0Kinds == {"plain", "padded", "lower", "nospan"}

Row0Span(kind, label, hasStyle, style) ==
    CASE kind = "plain"  -> Span(label, hasStyle, style)
      [] kind = "padded" -> Span(<<" ", "\n">> \o label \o <<"\t", " ">>, hasStyle, style)
      [] kind = "lower"  -> Span(<<"s", "u", "n">>, hasStyle, style)
      [] kind = "nospan" -> NoSpan

HiddenStyle == ClipPath \o Circle0 \o PositionAbsolute
VisibleStyle == ClipPath \o NoneStr \o PositionAbsolute
TwiceHiddenStyle ==
    ClipPath \o Circle0 \o <<";", " ">> \o WebkitClipPath \o Circle0 \o <<";">>

\* style attribute of the row 0 label: <<>> is no attribute, <<s>> the string s
Styles == {<<>>, <<HiddenStyle>>, <<VisibleStyle>>, <<TwiceHiddenStyle>>,
           << <<>> >>, <<Circle0>>}

\* cells get ids 10 * (row as created) + (cell as created), rows and cells from 0
MkRow(r, span, n) ==
    [c \in 1..n |-> [id |-> 10 * (r - 1) + (c - 1),
                     span |-> IF c = 1 THEN span ELSE NoSpan]]

MkTable(shape, kind, hasBody, n0, n1, st) ==
    LET labels == ShapeLabels(shape)
    IN  [hasBody |-> hasBody,
         rows |-> [r \in 1..Len(labels) |->
                     IF r = 1
                     THEN MkRow(1, Row0Span(kind, labels[1], st # <<>>,
                                            IF st # <<>> THEN st[1] ELSE <<>>), n0)
                     ELSE MkRow(r, Span(labels[r], TRUE, VisibleStyle), n1)],
         weekMondayCorrected |-> FALSE]

\* every shape, label spelling, cell count and style with a body, and every
\* shape and cell count without one
Tables ==
    {MkTable(shape, kind, TRUE, n0, n1, st) :
        shape \in Shapes, kind \in Row0Kinds,
        n0 \in 0..MaxCells, n1 \in 1..MaxCells, st \in Styles}
    \cup
    {MkTable(shape, "plain", FALSE, n0, n1, <<HiddenStyle>>) :
        shape \in Shapes, n0 \in 0..MaxCells, n1 \in 1..MaxCells}

----------------------------------------------------------------------------
(* The state the operations work on, as one record                         *)

NoCall(table) ==
    [before |-> table, after |-> table, caught |-> FALSE,
     tried |-> FALSE, moved |-> 0, deleted |-> 0]

CallRec(before, r) ==
    [before |-> before, after |-> r.table, caught |-> r.caught,
     tried |-> r.tried, moved |-> r.moved, deleted |-> r.deleted]

W ==
    [document |-> document, subscriptions |-> subscriptions,
     activeObserver |-> activeObserver, timeout |-> timeout, timers |-> timers,
     popstate |-> popstate, hist |-> hist, orig |-> orig, relocs |-> relocs,
     dels |-> dels, calls |-> calls, first |-> first, last |-> last]

Becomes(w) ==
    /\ document' = w.document
    /\ subscriptions' = w.subscriptions
    /\ activeObserver' = w.activeObserver
    /\ timeout' = w.timeout
    /\ timers' = w.timers
    /\ popstate' = w.popstate
    /\ hist' = w.hist
    /\ orig' = w.orig
    /\ relocs' = w.relocs
    /\ dels' = w.dels
    /\ calls' = w.calls
    /\ first' = w.first
    /\ last' = w.last

\* the element of a one-element set: The({e(v) : v \in {x}}) is e of the
\* value of x, with x evaluated once
The(S) == CHOOSE r \in S : TRUE

NoEvent ==
    [kind |-> "none", gen |-> 0, n |-> 0, quiet |-> 0, active |-> FALSE,
     same |-> TRUE, found |-> FALSE]

\* one invocation of the Realigner on the table in the document
Invoke(w, fault) ==
    The({[w EXCEPT !.document = <<r.table>>,
                   !.relocs = @ + r.moved,
                   !.dels = @ + r.deleted,
                   !.calls = IF @ < MaxCalls THEN @ + 1 ELSE @] :
         r \in {startWeekOnMonday(w.document[1], fault)}})

----------------------------------------------------------------------------
(* Timers: setTimeout / clearTimeout.  A timer is [id, kind, gen, left]:   *)
(* left is the time to its deadline.  An id is reused only when no closure *)
(* holds it and no timer bears it.                                         *)

\* debounce(handleMutations, 50)
DebounceWait == 50

\* setTimeout(..., 5000)
GiveUpWait == 5000

TimerIds(w) == {t.id : t \in w.timers} \cup {w.timeout[g] : g \in DOMAIN w.timeout}

FreshTimerId(w) ==
    The({Min({i \in 1..(Cardinality(ids) + 1) : i \notin ids}) :
         ids \in {TimerIds(w)}})

Gens(w) == w.subscriptions \cup DOMAIN w.timeout \cup {t.gen : t \in w.timers}

FreshGen(w) ==
    The({Min({g \in 1..(Cardinality(gens) + 1) : g \notin gens}) :
         gens \in {Gens(w)}})

clearTimeout(w, id) == [w EXCEPT !.timers = {t \in @ : t.id # id}]

setTimeout(w, id, kind, gen, wait) ==
    [w EXCEPT !.timers = @ \cup {[id |-> id, kind |-> kind, gen |-> gen,
                                  left |-> wait]}]

\* closures nothing refers to any more: neither a connected observer nor a
\* pending timer
Collect(w) ==
    The({[w EXCEPT !.timeout = [g \in DOMAIN w.timeout \cap live |-> w.timeout[g]],
                   !.hist = [g \in DOMAIN w.hist \cap live |-> w.hist[g]]] :
         live \in {w.subscriptions \cup {t.gen : t \in w.timers}}})

----------------------------------------------------------------------------
(* debounce *)

\* the give-up timer of generation gen is pending
InWindow(w, gen) == \E t \in w.timers : t.kind = "giveup" /\ t.gen = gen

\* timeout = setTimeout(later, wait), and the history of the closure
Schedule(w, gen) ==
    The({[setTimeout(w, id, "debounce", gen, DebounceWait)
             EXCEPT !.timeout[gen] = id,
                    !.hist[gen].n = @ + 1,
                    !.hist[gen].quiet = 0,
                    !.hist[gen].total = IF InWindow(w, gen) THEN @ + 1 ELSE @] :
         id \in {FreshTimerId(w)}})

\* executedFunction without clearTimeout(timeout): checks stack up
executedFunctionStacks(w, gen) == Schedule(w, gen)

\* the function debounce returns, called by the observer of generation gen:
\* clearTimeout(timeout); timeout = setTimeout(later, wait)
executedFunction(w, gen) ==
    The({Schedule(c, gen) : c \in {clearTimeout(w, w.timeout[gen])}})

\* a batch is the sequence of the types of its mutation records
ChildListBatch == <<"childList">>

\* the MutationObserver callback of generation gen
callback(w, gen, mutations) ==
    IF variant = "extension"
    THEN LET shouldCheck == \E i \in 1..Len(mutations) : mutations[i] = "childList"
         IN  IF shouldCheck THEN executedFunction(w, gen) ELSE w
    ELSE executedFunction(w, gen)

\* observe(document.body, {childList: true, subtree: true}): the records an
\* observer is handed are the child-list ones
\* observe with attributes and characterData switched on as well
ObservedAll(mutations) == mutations

Observed(mutations) == SelectSeq(mutations, LAMBDA m : m = "childList")

\* delivery of the records of one page change to every connected observer
RECURSIVE DeliverTo(_, _, _)
DeliverTo(w, gens, mutations) ==
    IF gens = {} THEN w
    ELSE The({DeliverTo(w1, gens \ {Min(gens)}, mutations) :
              w1 \in {callback(w, Min(gens), mutations)}})

Deliver(w, mutations) ==
    The({IF records = <<>> THEN w ELSE DeliverTo(w, w.subscriptions, records) :
         records \in {Observed(mutations)}})

----------------------------------------------------------------------------
(* handleMutations, observeTable, main *)

\* the records the Realigner's own edits produce
OwnRecords(before, after) ==
    (IF after.relocs > before.relocs THEN <<"childList">> ELSE <<>>)
        \o (IF after.dels > before.dels THEN <<"childList">> ELSE <<>>)
        \o (IF after.document # before.document THEN <<"attributes">> ELSE <<>>)

\* the table was found: noted in the history of every closure
Found(w) == [w EXCEPT !.hist = [g \in DOMAIN @ |-> [@[g] EXCEPT !.found = TRUE]]]

handleMutations(w, fault) ==
    IF w.document = <<>> THEN w
    ELSE The({Deliver(Found(w1), OwnRecords(w, w1)) : w1 \in {Invoke(w, fault)}})

NewClosure(found) == [n |-> 0, quiet |-> 0, total |-> 0, found |-> found]

\* new MutationObserver(...).observe(...) with its debounced handler
Subscribe(w, gen, found) ==
    [w EXCEPT !.subscriptions = @ \cup {gen},
              !.timeout = [g \in DOMAIN @ \cup {gen} |->
                             IF g = gen THEN 0 ELSE @[g]],
              !.hist = [g \in DOMAIN @ \cup {gen} |->
                          IF g = gen THEN NewClosure(found) ELSE @[g]]]

\* observeTable without its first statement, handleMutations()
observeTableExtensionNoPass(w, fault) == Subscribe(w, FreshGen(w), FALSE)

\* observeTable of src/extension/content.js
observeTableExtension(w, fault) ==
    The({Subscribe(w1, FreshGen(w1), w.document # <<>>) :
         w1 \in {handleMutations(w, fault)}})

\* observeTable of src/unnamed/part_000 past its guard
StartPart000(w, fault) ==
    The({setTimeout(w2, FreshTimerId(w2), "giveup", w2.activeObserver, GiveUpWait) :
         w2 \in {[Subscribe(w1, FreshGen(w1), w.document # <<>>)
                     EXCEPT !.activeObserver = FreshGen(w1)] :
                  w1 \in {handleMutations(w, fault)}}})

observeTablePart000NoGuard(w, fault) == StartPart000(w, fault)

\* the guard returning only when the table is there as well
observeTablePart000GuardsOnTable(w, fault) ==
    IF w.activeObserver # 0 /\ w.document # <<>> THEN w ELSE StartPart000(w, fault)

\* observeTable of src/unnamed/part_000
observeTablePart000(w, fault) ==
    IF w.activeObserver # 0 THEN w ELSE StartPart000(w, fault)

observeTable(w, fault) ==
    IF variant = "extension" THEN observeTableExtension(w, fault)
    ELSE observeTablePart000(w, fault)

\* if (items.enableRealignment)
settingsAllowAlways(items) == TRUE

settingsAllow(items) == items

\* the callback of storage.sync.get
settingsCallback(w, items, fault) ==
    IF settingsAllow(items)
    THEN IF variant = "part_000"
         THEN [observeTable(w, fault) EXCEPT !.popstate = 1]
         ELSE observeTable(w, fault)
    ELSE w

\* the function setTimeout runs for a debounce timer t
later(w, t, fault) ==
    The({IF variant = "extension"
         THEN The({handleMutations(w1, fault) :
                   w1 \in {clearTimeout(w0, w0.timeout[t.gen])}})
         ELSE handleMutations(w0, fault) :
         w0 \in {[w EXCEPT !.timers = @ \ {t}, !.hist[t.gen].n = 0]}})

\* the function setTimeout runs for the give-up timer t
giveUp(w, t) ==
    The({IF w0.activeObserver # 0 /\ w0.document = <<>>
         THEN [w0 EXCEPT !.subscriptions = @ \ {w0.activeObserver},
                         !.activeObserver = 0]
         ELSE w0 :
         w0 \in {[w EXCEPT !.timers = @ \ {t}, !.hist[t.gen].total = 0]}})

----------------------------------------------------------------------------
(* SpecRealign: the Realigner called directly on one table, as             *)
(* src/tests/verify.js does, up to MaxCalls times.                         *)

NoClosures == [g \in {} |-> 0]

InitRealign ==
    /\ variant = "extension"
    /\ enableRealignment = TRUE
    /\ pc = "direct"
    /\ \E t \in Tables : document = <<t>> /\ orig = t /\ first = NoCall(t)
                         /\ last = NoCall(t)
    /\ subscriptions = {}
    /\ activeObserver = 0
    /\ timeout = NoClosures
    /\ hist = NoClosures
    /\ timers = {}
    /\ popstate = 0
    /\ relocs = 0
    /\ dels = 0
    /\ calls = 0
    /\ ev = NoEvent

DirectCall(fault) ==
    /\ pc = "direct"
    /\ calls < MaxCalls
    /\ \E w \in {W} :
       \E rec \in {CallRec(document[1], startWeekOnMonday(document[1], fault))} :
            Becomes([Invoke(w, fault) EXCEPT
                        !.first = IF calls = 0 THEN rec ELSE @,
                        !.last = rec])
    /\ ev' = [NoEvent EXCEPT !.kind = "call"]
    /\ UNCHANGED <<variant, enableRealignment, pc>>

NextRealign == \E fault \in FaultPoints : DirectCall(fault)

SpecRealign == InitRealign /\ [][NextRealign]_vars

----------------------------------------------------------------------------
(* Spec: the content script in a page.  The page inserts, replaces and     *)
(* removes the table and changes other nodes; time passes, never beyond a  *)
(* deadline; timers fire at their deadline; the history stack pops.        *)

\* most notification batches of the page one debounce closure coalesces
MaxBurst == 3

\* most notification batches of the page between a start and its give-up
MaxWindowBatches == 2

WellFormedTable == MkTable("SunStart", "plain", TRUE, 3, 3, <<HiddenStyle>>)
UnreadyTable == MkTable("Six", "plain", TRUE, 3, 3, <<HiddenStyle>>)
TwoSunTable == MkTable("TwoSun", "plain", TRUE, 3, 3, <<HiddenStyle>>)

PageTables == {WellFormedTable, UnreadyTable, TwoSunTable}

Init ==
    /\ variant \in {"extension", "part_000"}
    /\ enableRealignment \in BOOLEAN
    /\ pc \in {"loading", "settings"}
    /\ \/ document = <<>> /\ orig = EmptyTable
       \/ \E t \in PageTables : document = <<t>> /\ orig = t
    /\ first = NoCall(EmptyTable)
    /\ last = NoCall(EmptyTable)
    /\ subscriptions = {}
    /\ activeObserver = 0
    /\ timeout = NoClosures
    /\ hist = NoClosures
    /\ timers = {}
    /\ popstate = 0
    /\ relocs = 0
    /\ dels = 0
    /\ calls = 0
    /\ ev = NoEvent

\* document.addEventListener('DOMContentLoaded', main): main issues the read
DOMContentLoaded ==
    /\ pc = "loading"
    /\ pc' = "settings"
    /\ ev' = NoEvent
    /\ UNCHANGED <<variant, enableRealignment, document, subscriptions,
                   activeObserver, timeout, timers, popstate, hist, orig, relocs,
                   dels, calls, first, last>>

\* the settings read completes
SettingsRead(fault) ==
    /\ pc = "settings"
    /\ pc' = IF settingsAllow(enableRealignment) THEN "running" ELSE "off"
    /\ \E w \in {W} :
       \E w1 \in {settingsCallback(w, enableRealignment, fault)} : Becomes(w1)
    /\ ev' = NoEvent
    /\ UNCHANGED <<variant, enableRealignment>>

\* the browser dispatches popstate to the registered listener
Popstate(fault) ==
    /\ popstate > 0
    /\ \E w \in {W} :
       \E w1 \in {observeTable(w, fault)} :
           /\ Becomes(w1)
           /\ ev' = [NoEvent EXCEPT !.kind = "popstate",
                                    !.active = (activeObserver # 0),
                                    !.same = (w1 = w)]
    /\ UNCHANGED <<variant, enableRealignment, pc>>

BurstRoom ==
    \A g \in DOMAIN hist : hist[g].n < MaxBurst /\ hist[g].total < MaxWindowBatches

\* the history of a table instance starts with the instance
Fresh(w, table) ==
    [w EXCEPT !.orig = table, !.relocs = 0, !.dels = 0, !.calls = 0]

\* the page renders a table (the first one, or a replacement)
PageInsertTable(table) ==
    /\ BurstRoom
    /\ \E w \in {Fresh([W EXCEPT !.document = <<table>>], table)} :
       \E w1 \in {Deliver(w, ChildListBatch)} : Becomes(w1)
    /\ ev' = NoEvent
    /\ UNCHANGED <<variant, enableRealignment, pc>>

\* the page removes the table
PageRemoveTable ==
    /\ BurstRoom
    /\ document # <<>>
    /\ \E w \in {Fresh([W EXCEPT !.document = <<>>], EmptyTable)} :
       \E w1 \in {Deliver(w, ChildListBatch)} : Becomes(w1)
    /\ ev' = NoEvent
    /\ UNCHANGED <<variant, enableRealignment, pc>>

\* the page adds or removes nodes elsewhere in the body
PageChildList ==
    /\ BurstRoom
    /\ subscriptions # {}
    /\ \E w \in {W} :
       \E w1 \in {Deliver(w, ChildListBatch)} : Becomes(w1)
    /\ ev' = NoEvent
    /\ UNCHANGED <<variant, enableRealignment, pc>>

\* batches of the page with attribute and text records
OtherBatches ==
    {<<"attributes">>, <<"characterData", "attributes">>,
     <<"attributes", "childList">>}

\* the page changes attributes or text in the body, with or without adding
\* or removing nodes in the same batch
PageOtherBatch(mutations) ==
    /\ BurstRoom
    /\ subscriptions # {}
    /\ \E w \in {W} :
       \E w1 \in {Deliver(w, mutations)} :
           /\ Becomes(w1)
           /\ ev' = [NoEvent EXCEPT !.kind = "batch",
                                    !.n = Len(Observed(mutations)),
                                    !.same = (w1 = w)]
    /\ UNCHANGED <<variant, enableRealignment, pc>>

NextDeadline == IF timers = {} THEN 0 ELSE Min({t.left : t \in timers})

\* time passes: to the next deadline, or, while a check is pending, by half
\* the debounce delay where that is no later than the next deadline
Tick ==
    /\ timers # {}
    /\ NextDeadline > 0
    /\ \E d \in {NextDeadline, DebounceWait \div 2} :
       /\ d <= NextDeadline
       /\ d = NextDeadline \/ \E t \in timers : t.kind = "debounce"
       /\ timers' = {[t EXCEPT !.left = @ - d] : t \in timers}
       /\ hist' = [g \in DOMAIN hist |->
                     [hist[g] EXCEPT !.quiet = IF @ + d > DebounceWait
                                               THEN DebounceWait ELSE @ + d]]
    /\ ev' = NoEvent
    /\ UNCHANGED <<variant, enableRealignment, pc, document, subscriptions,
                   activeObserver, timeout, popstate, orig, relocs, dels, calls,
                   first, last>>

\* a debounce timer fires: later()
DebounceFire(fault) ==
    \E t \in timers :
        /\ t.kind = "debounce"
        /\ t.left = 0
        /\ \E w \in {W} :
           \E w1 \in {Collect(later(w, t, fault))} : Becomes(w1)
        /\ ev' = [NoEvent EXCEPT !.kind = "check", !.gen = t.gen,
                                 !.n = hist[t.gen].n,
                                 !.quiet = hist[t.gen].quiet]
        /\ UNCHANGED <<variant, enableRealignment, pc>>

\* a give-up timer fires
GiveUpFire ==
    \E t \in timers :
        /\ t.kind = "giveup"
        /\ t.left = 0
        /\ \E w \in {W} :
           \E w1 \in {Collect(giveUp(w, t))} : Becomes(w1)
        /\ ev' = [NoEvent EXCEPT !.kind = "giveup", !.gen = t.gen,
                                 !.active = (activeObserver # 0),
                                 !.found = hist[t.gen].found]
        /\ UNCHANGED <<variant, enableRealignment, pc>>

Next ==
    \/ DOMContentLoaded
    \/ \E fault \in FaultPoints : SettingsRead(fault)
    \/ \E fault \in FaultPoints : Popstate(fault)
    \/ \E table \in PageTables : PageInsertTable(table)
    \/ PageRemoveTable
    \/ PageChildList
    \/ \E mutations \in OtherBatches : PageOtherBatch(mutations)
    \/ Tick
    \/ \E fault \in FaultPoints : DebounceFire(fault)
    \/ GiveUpFire

Spec == Init /\ [][Next]_vars

----------------------------------------------------------------------------
(* SpecLive: the content script in a page where no step of the Realigner   *)
(* throws, time passes and a timer whose deadline has come fires.  The     *)
(* page and the history stack are under no obligation to act.              *)

NextLive ==
    \/ DOMContentLoaded
    \/ SettingsRead("none")
    \/ Popstate("none")
    \/ \E table \in PageTables : PageInsertTable(table)
    \/ PageRemoveTable
    \/ PageChildList
    \/ \E mutations \in OtherBatches : PageOtherBatch(mutations)
    \/ Tick
    \/ DebounceFire("none")
    \/ GiveUpFire

SpecLive ==
    /\ Init
    /\ [][NextLive]_vars
    /\ WF_vars(Tick)
    /\ WF_vars(DebounceFire("none"))
    /\ WF_vars(GiveUpFire)

----------------------------------------------------------------------------
(* Vocabulary of the claims *)

\* trimmed label text of each row, <<>> where the row has no label span
Labels(table) ==
    [r \in 1..Len(table.rows) |->
        IF Len(table.rows[r]) > 0 /\ table.rows[r][1].span.exists
        THEN trim(table.rows[r][1].span.text) ELSE <<>>]

\* ids of the cells of each row
CellIds(row) == [c \in 1..Len(row) |-> row[c].id]

SundayFirst == <<Sun, Mon, Tue, Wed, Thu, Fri, Sat>>
MondayFirst == <<Mon, Tue, Wed, Thu, Fri, Sat, Sun>>

\* one body, 7 rows labelled Sun..Sat, row 0 with at least 2 cells, marker unset
WellFormed(table) ==
    /\ table.hasBody
    /\ Labels(table) = SundayFirst
    /\ Len(table.rows[1]) >= 2
    /\ ~table.weekMondayCorrected

\* one invocation that ran to the end on a well-formed table
RealignedWellFormed(rec) == WellFormed(rec.before) /\ ~rec.caught

----------------------------------------------------------------------------
(* C1 *)

\* C1: idempotence of realign. After a first invocation that raised nothing,
\* any further invocation on the same table leaves the table (row order,
\* cells, label style, marker) as the first one left it.
C1_Idempotent ==
    (calls >= 2 /\ ~first.caught) => document[1] = first.after

\* a second call on a table that the first call relocated and marked,
\* with the table as whole as the first call left it
C1_Witness ==
    /\ calls >= 2
    /\ ~first.caught
    /\ first.moved = 1
    /\ first.after.weekMondayCorrected
    /\ Labels(first.before)[2] = Sun

----------------------------------------------------------------------------
(* C2 *)

\* C2: row order after realign. On a well-formed Sunday-start table one
\* invocation leaves the labels Mon..Sat, Sun: row 0 went to the end and
\* rows 1..6 kept their order.
C2_RowOrder ==
    (calls >= 1 /\ RealignedWellFormed(first)) =>
        /\ Labels(first.after) = MondayFirst
        /\ \A r \in 1..6 : first.after.rows[r] = first.before.rows[r + 1]
        /\ first.after.rows[7][1].id = first.before.rows[1][1].id

C2_Witness ==
    /\ calls = 1
    /\ RealignedWellFormed(first)
    /\ first.moved = 1
    /\ Labels(document[1]) = MondayFirst

----------------------------------------------------------------------------
(* C3 *)

\* C3: cell counts after realign. On a well-formed table the six rows that
\* were not relocated keep their cell count, the Sunday row has one cell
\* fewer and keeps its label cell; and no invocation on any table deletes a
\* cell from a row of 1 cell or fewer.
C3_CellCounts ==
    /\ (calls >= 1 /\ RealignedWellFormed(first)) =>
          /\ \A r \in 1..6 :
                Len(first.after.rows[r]) = Len(first.before.rows[r + 1])
          /\ Len(first.after.rows[7]) = Len(first.before.rows[1]) - 1
          /\ first.after.rows[7][1].id = first.before.rows[1][1].id
    /\ (calls >= 1 /\ last.deleted > 0) => Len(last.before.rows[1]) > 1

C3_Witness ==
    /\ calls = 1
    /\ RealignedWellFormed(first)
    /\ first.deleted = 1
    /\ Len(first.before.rows[1]) = 3
    /\ Len(first.before.rows[2]) = 2
    /\ Len(document[1].rows[7]) = 2

----------------------------------------------------------------------------
(* C4 *)

\* the shape conditions of the claim, read off a table
NoBody(table) == ~table.hasBody
WrongRowCount(table) == Len(table.rows) # 7
ShortRow0(table) == Len(table.rows) > 0 /\ Len(table.rows[1]) < 2
Row0NotSun(table) ==
    /\ Len(table.rows) > 0
    /\ Len(table.rows[1]) > 0
    /\ \/ ~table.rows[1][1].span.exists
       \/ trim(table.rows[1][1].span.text) # Sun

Unfit(table) ==
    NoBody(table) \/ WrongRowCount(table) \/ ShortRow0(table) \/ Row0NotSun(table)

\* C4: guard correctness. An invocation on a table with no body, a row
\* count other than 7, a row 0 of fewer than 2 cells, or a row 0 label that
\* is missing or does not trim to 'Sun' leaves the table as it was (rows,
\* cells, styles) and does not set the marker.
C4_Guards ==
    (calls >= 1 /\ Unfit(last.before)) =>
        /\ last.after = last.before
        /\ document[1] = last.before
        /\ ~last.tried
        /\ document[1].weekMondayCorrected = last.before.weekMondayCorrected
        /\ (calls = 1 => ~document[1].weekMondayCorrected)

\* each kind of unfit table has been passed to realign
C4_Witness6 == calls >= 1 /\ last.before.hasBody /\ Len(last.before.rows) = 6
C4_Witness ==
    /\ calls >= 1
    /\ last.before.hasBody
    /\ Len(last.before.rows) = 8
    /\ Len(last.before.rows[1]) >= 2
    /\ ~Row0NotSun(last.before)

----------------------------------------------------------------------------
(* C5 *)

RECURSIVE replaceAll(_, _, _)
replaceAll(s, pat, rep) ==
    IF ~includes(s, pat) THEN s
    ELSE LET i == Min(Occurrences(s, pat))
         IN SubSeq(s, 1, i - 1) \o rep
               \o replaceAll(SubSeq(s, i + Len(pat), Len(s)), pat, rep)

\* C5: visibility fix. After realign of a well-formed table whose Sunday
\* label style contains 'Circle(0)', the style contains no 'Circle(0)' and
\* is otherwise the style it was; a label without style attribute has none.
C5_NoClipLeft ==
    (calls >= 1 /\ RealignedWellFormed(first)) =>
        LET before == first.before.rows[1][1].span
            after == first.after.rows[7][1].span
        IN  /\ (before.hasStyle /\ includes(before.style, Circle0)) =>
                  /\ ~includes(after.style, Circle0)
                  /\ after.style = replaceAll(before.style, Circle0, NoneStr)
            /\ ~before.hasStyle => ~after.hasStyle

----------------------------------------------------------------------------
(* C6 *)

PendingChecks(g) == {t \in timers : t.kind = "debounce" /\ t.gen = g}

\* C6: debounce coalescing. The batches a debounced handler has received
\* since its last check, however many, have exactly one check pending; the
\* check that runs does so for at least one batch and not before the
\* debounce delay has passed since the last of them.
C6_Coalesce ==
    /\ \A g \in DOMAIN hist :
          Cardinality(PendingChecks(g)) = IF hist[g].n > 0 THEN 1 ELSE 0
    /\ ev.kind = "check" => ev.n >= 1 /\ ev.quiet >= DebounceWait

\* one check has run for a burst of three batches
C6_Witness == ev.kind = "check" /\ ev.n >= 3

----------------------------------------------------------------------------
(* C7 *)

SunRows(table) == {r \in 1..Len(table.rows) : Labels(table)[r] = Sun}

\* C7: at most one structural mutation per table instance. Over all the
\* invocations on one instance (start pass, debounced checks, invocations
\* in which a step throws), the instance having at most one row labelled
\* Sun as every Grid has, row 0 is relocated at most once and a cell is
\* deleted at most once.
C7_AtMostOnce ==
    Cardinality(SunRows(orig)) <= 1 => relocs <= 1 /\ dels <= 1

\* a further invocation on an instance that was relocated and cut
C7_Witness ==
    /\ calls >= 2
    /\ relocs = 1
    /\ dels = 1
    /\ ev.kind = "check"
    /\ orig = WellFormedTable

----------------------------------------------------------------------------
(* C8 *)

\* C8: disabled setting. When the settings read yields false there is never
\* a subscription, a pending timer or a popstate listener, and the table in
\* the document is as the page made it, unmarked.
C8_Disabled ==
    ~enableRealignment =>
        /\ subscriptions = {}
        /\ activeObserver = 0
        /\ timers = {}
        /\ popstate = 0
        /\ relocs = 0 /\ dels = 0 /\ calls = 0
        /\ document # <<>> => document[1] = orig /\ ~document[1].weekMondayCorrected

\* the read has yielded false and a well-formed table is in the document
C8_Witness ==
    /\ ~enableRealignment
    /\ pc = "off"
    /\ document = <<WellFormedTable>>

----------------------------------------------------------------------------
(* C9 *)

GiveUpTimers == {t \in timers : t.kind = "giveup"}

\* C9: start is idempotent. A call of observeTable while a watcher runs
\* changes nothing (no subscription, no timer, no detection pass), and at
\* most one subscription is ever active.
C9_StartIdempotent ==
    /\ Cardinality(subscriptions) <= 1
    /\ (ev.kind = "popstate" /\ ev.active) => ev.same

\* observeTable was called with a watcher running and an uncorrected
\* well-formed table in the document
C9_Witness ==
    /\ ev.kind = "popstate"
    /\ ev.active
    /\ document # <<>>
    /\ document[1] = WellFormedTable
    /\ GiveUpTimers # {}

----------------------------------------------------------------------------
(* C10 *)

\* C10: give-up safety valve. The give-up timer tears the subscription down
\* only if no table was found since the start; if one was found at any
\* moment of the window, the subscription is active after the timer fired.
C10_GiveUpKeepsFound ==
    (ev.kind = "giveup" /\ ev.active /\ ev.found) => ev.gen \in subscriptions

----------------------------------------------------------------------------
(* C11 *)

\* C11: mutation failure is absorbed. An invocation in which a step of the
\* try block raised an exception (at the relocation, the cell deletion, the
\* label lookup, the style edit or the marker assignment) ended in its catch
\* clause and returned the table to its caller with the marker not set.
C11_FailureAbsorbed ==
    (calls >= 1 /\ last.caught) =>
        /\ last.tried
        /\ ~last.before.weekMondayCorrected
        /\ ~last.after.weekMondayCorrected
        /\ document[1] = last.after

\* the marker assignment threw, after relocation, deletion and style edit
C11_Witness ==
    /\ calls >= 1
    /\ last.caught
    /\ last.moved = 1
    /\ last.deleted = 1
    /\ last.after.rows[7][1].span.style # last.before.rows[1][1].span.style

----------------------------------------------------------------------------
(* C12 *)

\* C12: retry after a mutation failure. When the first invocation on a
\* well-formed table (its label style holding 'Circle(0)' at most once)
\* ended in the catch clause and a later invocation raised nothing, the
\* table is corrected: marker set, labels Mon..Sat, Sun, the Sunday row one
\* cell shorter than created with its label cell kept, its label style
\* without 'Circle(0)'.
C12_RetryCompletes ==
    (/\ calls >= 2
     /\ WellFormed(first.before)
     /\ Cardinality(Occurrences(first.before.rows[1][1].span.style, Circle0)) <= 1
     /\ first.caught
     /\ ~last.caught) =>
        /\ document[1].weekMondayCorrected
        /\ Labels(document[1]) = MondayFirst
        /\ LET ids == CellIds(orig.rows[1])
           IN  CellIds(document[1].rows[7]) = <<ids[1]>> \o SubSeq(ids, 3, Len(ids))
        /\ ~includes(document[1].rows[7][1].span.style, Circle0)

----------------------------------------------------------------------------
(* C13 *)

\* C13: no data loss beyond the one intended cell. Whatever invocations a
\* table instance created well-formed has gone through (completed, returned
\* at a guard, or ended in the catch clause at any step), it has 7 rows, the
\* six rows Mon..Sat are each present with every cell they were created
\* with, and the Sunday row is present with its label cell first and either
\* all its data cells or all but the one created at index 1.
C13_NoDataLoss ==
    (document # <<>> /\ WellFormed(orig)) =>
        /\ Len(document[1].rows) = 7
        /\ \A r \in 2..7 : \E q \in 1..7 : document[1].rows[q] = orig.rows[r]
        /\ \E q \in 1..7 :
              LET ids == CellIds(orig.rows[1])
              IN  CellIds(document[1].rows[q]) \in
                      {ids, <<ids[1]>> \o SubSeq(ids, 3, Len(ids))}

\* a further invocation on an instance that an invocation has relocated and
\* cut before it ended in the catch clause
C13_Witness ==
    /\ orig = WellFormedTable
    /\ calls >= 2
    /\ relocs = 1
    /\ dels = 1
    /\ ~document[1].weekMondayCorrected
    /\ ev.kind = "check"

----------------------------------------------------------------------------
(* C14 *)

DebounceTimers == {t \in timers : t.kind = "debounce"}

\* C14: at most one pending check. In every state of the watcher, whatever
\* batches, timer firings, give-up teardown and popstate restarts came
\* before, at most one debounced check is scheduled.
C14_OnePending == Cardinality(DebounceTimers) <= 1

----------------------------------------------------------------------------
(* C15 *)

\* the watcher was started and a well-formed Sunday-start table instance
\* that the page rendered is in the document, uncorrected
Uncorrected ==
    /\ pc = "running"
    /\ document # <<>>
    /\ orig = WellFormedTable
    /\ ~document[1].weekMondayCorrected

Corrected ==
    /\ document # <<>>
    /\ orig = WellFormedTable
    /\ document[1].weekMondayCorrected
    /\ Labels(document[1]) = MondayFirst

\* the page has taken the well-formed table out of the document
TakenOut == document = <<>> \/ orig # WellFormedTable

\* C15: every new Grid is eventually corrected. With the watcher started,
\* a well-formed Sunday-start table that the page has put into the document
\* (it was there at start, or was inserted or replaced at any time after)
\* and leaves there is eventually marked and in Monday-start order.
C15_EventuallyCorrected == Uncorrected ~> (Corrected \/ TakenOut)

\* the same of the watcher of src/extension/content.js alone
C15_ExtensionCorrects ==
    (variant = "extension" /\ Uncorrected) ~> (Corrected \/ TakenOut)

----------------------------------------------------------------------------
(* C16 *)

\* the subscriptions a step makes
Started == subscriptions' \ subscriptions

\* C16: immediate pass on start. A step that starts a watcher (it makes a
\* subscription) with a well-formed Sunday-start table in the document
\* leaves that table marked and in Monday-start order, the new debounced
\* handler having received no batch and holding no timer.
C16_ImmediatePass ==
    [][(Started # {} /\ document # <<>> /\ WellFormed(document[1])) =>
         /\ document' # <<>>
         /\ document'[1].weekMondayCorrected
         /\ Labels(document'[1]) = MondayFirst
         /\ \A g \in Started : timeout'[g] = 0 /\ hist'[g].n = 0]_vars

\* the watcher has just started on a page that held a well-formed table:
\* one invocation, no check scheduled, no time passed
C16_Witness ==
    /\ pc = "running"
    /\ Corrected
    /\ calls = 1
    /\ subscriptions # {}
    /\ DebounceTimers = {}
    /\ \A t \in timers : t.left = GiveUpWait
    /\ ev.kind = "none"

----------------------------------------------------------------------------
(* C17 *)

\* C17: relevance filter. A batch of the page without a child-list record
\* changes nothing in the watcher: the pending timers and their deadlines,
\* the timer each closure holds and the table are as before it, and no
\* invocation of realign is made; a batch with a child-list record leaves
\* every connected observer's handler with a check scheduled a full
\* debounce delay ahead.
C17_RelevanceFilter ==
    /\ (ev.kind = "batch" /\ ev.n = 0) => ev.same
    /\ (ev.kind = "batch" /\ ev.n > 0) =>
          \A g \in subscriptions :
              \E t \in PendingChecks(g) :
                  t.left = DebounceWait /\ timeout[g] = t.id

\* an attribute-only batch has arrived while a check was pending and part
\* of its delay had passed
C17_Witness ==
    /\ ev.kind = "batch"
    /\ ev.n = 0
    /\ \E t \in DebounceTimers : t.left = DebounceWait \div 2

\* a batch of attribute and child-list records has arrived
C17_WitnessMixed ==
    /\ ev.kind = "batch"
    /\ ev.n > 0
    /\ DebounceTimers # {}

----------------------------------------------------------------------------
(* C18 *)

\* C18: which cell is dropped. After realign of a well-formed table whose
\* Sunday row was created as label, d1, d2, .., dN, the last row is label,
\* d2, .., dN: the label cell first, then the data cells but d1, in their
\* order and as they were.
C18_DropsFirstDataCell ==
    (calls >= 1 /\ RealignedWellFormed(first)) =>
        LET sunday == first.before.rows[1]
            relocated == first.after.rows[7]
        IN  /\ Len(relocated) = Len(sunday) - 1
            /\ relocated[1].id = sunday[1].id
            /\ \A c \in 2..Len(relocated) : relocated[c] = sunday[c + 1]

\* a Sunday row of label, d1, d2 has become label, d2
C18_Witness ==
    /\ calls = 1
    /\ RealignedWellFormed(first)
    /\ CellIds(first.before.rows[1]) = <<0, 1, 2>>
    /\ CellIds(document[1].rows[7]) = <<0, 2>>

----------------------------------------------------------------------------
(* C19 *)

\* C19: the marker implies the correction. A table instance created
\* well-formed that bears the marker has the rows Mon..Sat at positions
\* 0..5, as created and in order, and the Sunday row last with one cell
\* fewer than created; row 0 was relocated once and a cell deleted once on
\* it, whatever invocations ended in the catch clause before.
C19_MarkerImpliesCorrected ==
    (document # <<>> /\ WellFormed(orig) /\ document[1].weekMondayCorrected) =>
        /\ Labels(document[1]) = MondayFirst
        /\ \A r \in 1..6 : document[1].rows[r] = orig.rows[r + 1]
        /\ document[1].rows[7][1].id = orig.rows[1][1].id
        /\ Len(document[1].rows[7]) = Len(orig.rows[1]) - 1
        /\ relocs = 1
        /\ dels = 1

\* the marker was set by the second invocation, the first having ended in
\* the catch clause
C19_Witness ==
    /\ calls = 2
    /\ WellFormed(orig)
    /\ first.caught
    /\ ~first.after.weekMondayCorrected
    /\ document[1].weekMondayCorrected

----------------------------------------------------------------------------
(* C20 *)

\* C20: the give-up timer of the variant with the shared handle. At most
\* one give-up timer is pending, it is the timer of the start that made the
\* connected subscription, and the subscription a firing give-up timer
\* tears down is the one made by the start that set the timer.
C20_GiveUpOwn ==
    /\ [](/\ Cardinality(GiveUpTimers) <= 1
          /\ \A t \in GiveUpTimers :
                activeObserver = t.gen /\ subscriptions = {t.gen})
    /\ [][ev'.kind = "giveup" => subscriptions \ subscriptions' \subseteq {ev'.gen}]_vars

\* popstate has started a second watcher after the give-up timer tore the
\* first down, a check of the first still pending
C20_Witness ==
    /\ ev.kind = "popstate"
    /\ ~ev.active
    /\ \E t \in GiveUpTimers : t.gen = 2 /\ t.left = GiveUpWait
    /\ \E t \in DebounceTimers : t.gen = 1
    /\ subscriptions = {2}

====
